---- MODULE Spec2Model ----
(***************************************************************************)
(* Tree API (src/src): a SQLite table of nodes (id, label, parent_id),     *)
(* the service operations create_node, list_trees and clear_all that the   *)
(* request handlers of a ThreadingHTTPServer run, each on a connection of  *)
(* its own, and the pure transform _rows_to_forest.                        *)
(*                                                                         *)
(* An Optional value is a sequence: <<>> is Python's None, <<v>> is v.     *)
(* A str is a sequence of one-character strings.                           *)
(***************************************************************************)
EXTENDS Integers, Sequences, FiniteSets, TLC

\* ------------------------------------------------------------------ bounds
\* The AUTOINCREMENT counter is capped: no INSERT once it reached MaxId.
MaxId == 3
\* The Forest Builder's inputs have at most MaxRows rows.
MaxRows == 3

\* sys.getrecursionlimit() of CPython, which the program never changes: a
\* call that would make the stack this deep raises RecursionError.
RecursionLimit == 1000

\* The frames under the first sort_children call when list_trees is called
\* from a script's top level: the script, list_trees and _rows_to_forest.
CallerFrames == 3

\* ----------------------------------------------------------------- values
None == <<>>
Some(x) == <<x>>

Handlers == {"h1", "h2"}

Whitespace == {" ", "\t", "\n"}

\* str.strip() with no argument: drop leading and trailing whitespace.
RECURSIVE LStrip(_)
LStrip(s) ==
    IF s # <<>> /\ Head(s) \in Whitespace THEN LStrip(Tail(s)) ELSE s

RECURSIVE RStrip(_)
RStrip(s) ==
    IF s # <<>> /\ s[Len(s)] \in Whitespace
    THEN RStrip(SubSeq(s, 1, Len(s) - 1))
    ELSE s

\* A trim of the left end only.
StripLeftOnly(s) == LStrip(s)

Strip(s) == RStrip(LStrip(s))

\* (label or "") without the strip.
NormLabelUntrimmed(label) == IF label = None THEN <<>> ELSE label[1]

\* (label or "").strip()
NormLabel(label) == Strip(IF label = None \/ label = Some(<<>>) THEN <<>> ELSE label[1])

\* The labels a caller passes: absent, empty, whitespace-only (as in the
\* tests "   \t\n   "), padded, and one with whitespace inside.
LabelInputs ==
    { None,
      Some(<<>>),
      Some(<<" ", "\t", "\n", " ">>),
      Some(<<" ", "a", " ">>),
      Some(<<"a", " ", "b">>) }

\* The parent ids a caller passes: absent, negative, zero and every id the
\* store can assign.
ParentInputs == {None} \cup {Some(p) : p \in -1 .. MaxId}

\* --------------------------------------------------------------- the state
VARIABLES
    nodes,      \* the committed rows of table nodes
    seq,        \* sqlite_sequence.seq of table nodes (AUTOINCREMENT)
    lock,       \* the connection holding the database's write lock
    pc,         \* each handler's position in its service call
    frame,      \* each handler's locals: label, parent_id, node_id, and the
                \* label it was called with (history)
    conn,       \* each handler's connection is open
    result,     \* what the step just taken returned or raised, if it ended a call
    response,   \* what the request handler sent to its client in that step
    issued,     \* history: the ids successful create_node calls returned
    last_read,  \* history: the forest read since the last commit, and
                \* whether it was read more than once
    rows,       \* Forest Builder run on its own: the rows given
    forest,     \* Forest Builder run on its own: the roots returned
    chain,      \* Forest Builder's call stack followed on rows that form one
                \* chain (row 1 a root, row i + 1 the child of row i): the
                \* number of rows
    frames,     \* the number of Python frames on the stack of that run
    sorting     \* where that run is: "idle", "descending", "returning",
                \* "returned" or "RecursionError"

vars == <<nodes, seq, lock, pc, frame, conn, result, response, issued, last_read, rows, forest,
         chain, frames, sorting>>
storeVars == <<nodes, seq, lock, pc, frame, conn, result, response, issued, last_read>>
builderVars == <<rows, forest, chain, frames, sorting>>

\* ------------------------------------------------------ the Forest Builder
\* A dict keeps its keys in the order of their first insertion; a later
\* row with the same id replaces the value and keeps the position.
RECURSIVE DictKeys(_)
DictKeys(rs) ==
    IF rs = <<>> THEN <<>>
    ELSE LET front == DictKeys(SubSeq(rs, 1, Len(rs) - 1))
             k == rs[Len(rs)].id
         IN  IF \E i \in DOMAIN front : front[i] = k THEN front ELSE Append(front, k)

DictGet(rs, k) ==
    LET hits == {i \in DOMAIN rs : rs[i].id = k}
    IN  IF hits = {} THEN None
        ELSE Some(rs[CHOOSE i \in hits : \A j \in hits : j <= i])

\* nodes.values(): one childless TreeNode per key, in key order.
DictValues(rs) ==
    LET ks == DictKeys(rs)
    IN  [i \in DOMAIN ks |-> DictGet(rs, ks[i])[1]]

\* list.sort(key=lambda n: n.id): a stable sort by ascending id.
RECURSIVE InsertById(_, _)
InsertById(s, x) ==
    IF s = <<>> THEN <<x>>
    ELSE IF s[Len(s)].id <= x.id THEN Append(s, x)
    ELSE Append(InsertById(SubSeq(s, 1, Len(s) - 1), x), s[Len(s)])

\* No sort: the list stays in the order of the appends.
KeepAppendOrder(s) == s

RECURSIVE SortById(_)
SortById(s) ==
    IF s = <<>> THEN <<>>
    ELSE InsertById(SortById(SubSeq(s, 1, Len(s) - 1)), s[Len(s)])

\* Only a node without parent_id becomes a root: one whose parent is
\* missing is dropped.
IsRootOnlyWithoutParent(rs, n) == n.parent_id = None

\* The second pass: a node is appended to roots when its parent_id is None
\* or is no key of the dict, and to its parent's children otherwise.
IsRootCandidate(rs, n) ==
    n.parent_id = None \/ DictGet(rs, n.parent_id[1]) = None

RootCandidates(rs) ==
    SelectSeq(DictValues(rs), LAMBDA n : IsRootCandidate(rs, n))

\* The parent is looked up among the roots instead of the dict: only the
\* children of roots are attached.
ChildrenAppendedToRoots(rs, p) ==
    SelectSeq(DictValues(rs),
              LAMBDA n : /\ ~IsRootCandidate(rs, n)
                         /\ n.parent_id = Some(p)
                         /\ IsRootCandidate(rs, DictGet(rs, p)[1]))

ChildrenAppended(rs, p) ==
    SelectSeq(DictValues(rs),
              LAMBDA n : ~IsRootCandidate(rs, n) /\ n.parent_id = Some(p))

\* sort_children(tree_node): sort the node's children, then each child's.
\* The value is the TreeNode with everything below it.
RECURSIVE sort_children(_, _)
sort_children(rs, n) ==
    LET cs == SortById(ChildrenAppended(rs, n.id))
    IN  [id |-> n.id, label |-> n.label, parent_id |-> n.parent_id,
         children |-> [i \in DOMAIN cs |-> sort_children(rs, cs[i])]]

\* An empty row list gives one placeholder root instead of no roots.
rows_to_forest_placeholder(rs) ==
    IF rs = <<>>
    THEN <<[id |-> 0, label |-> <<>>, parent_id |-> None, children |-> <<>>]>>
    ELSE LET roots == SortById(RootCandidates(rs))
         IN  [i \in DOMAIN roots |-> sort_children(rs, roots[i])]

\* _rows_to_forest without roots.sort: the roots stay in the order in which
\* the second pass met them.
rows_to_forest_roots_unsorted(rs) ==
    LET roots == RootCandidates(rs)
    IN  [i \in DOMAIN roots |-> sort_children(rs, roots[i])]

rows_to_forest(rs) ==
    LET roots == SortById(RootCandidates(rs))
    IN  [i \in DOMAIN roots |-> sort_children(rs, roots[i])]

\* TreeNode.to_dict(): id, label and children, without parent_id.
RECURSIVE to_dict(_)
to_dict(n) ==
    [id |-> n.id, label |-> n.label,
     children |-> [i \in DOMAIN n.children |-> to_dict(n.children[i])]]

\* --------------------------------------------- walking a returned forest
Range(s) == {s[i] : i \in DOMAIN s}

RECURSIVE SeqSum(_)
SeqSum(s) == IF s = <<>> THEN 0 ELSE s[1] + SeqSum(Tail(s))

\* How often the node with id k occurs in the tree below and including n.
RECURSIVE Occurrences(_, _)
Occurrences(n, k) ==
    (IF n.id = k THEN 1 ELSE 0)
    + SeqSum([i \in DOMAIN n.children |-> Occurrences(n.children[i], k)])

ForestOccurrences(f, k) == SeqSum([i \in DOMAIN f |-> Occurrences(f[i], k)])

\* Every TreeNode of the forest, at every depth.
RECURSIVE TreeNodes(_)
TreeNodes(n) == {n} \cup UNION {TreeNodes(c) : c \in Range(n.children)}

ForestNodes(f) == UNION {TreeNodes(n) : n \in Range(f)}

StrictlyAscending(s) == \A i \in DOMAIN s : \A j \in DOMAIN s : i < j => s[i].id < s[j].id

\* ------------------------------------------------------------- the store
Max(a, b) == IF a >= b THEN a ELSE b

Ids(t) == {r.id : r \in t}

MaxRowId(t) == IF t = {} THEN 0 ELSE CHOOSE m \in Ids(t) : \A i \in Ids(t) : i <= m

\* INTEGER PRIMARY KEY without AUTOINCREMENT: one more than the largest
\* rowid now in the table.
NextRowIdOfTable == MaxRowId(nodes) + 1

\* INTEGER PRIMARY KEY AUTOINCREMENT: one more than the largest rowid the
\* table ever held, which sqlite_sequence keeps across DELETE.
NextRowId == Max(seq, MaxRowId(nodes)) + 1

\* SELECT id FROM nodes WHERE id = ? ... fetchone()
SelectId(p) == IF p \in Ids(nodes) THEN Some(p) ELSE None

\* SELECT id, label, parent_id FROM nodes ORDER BY id ... fetchall()
RECURSIVE OrderById(_)
OrderById(t) ==
    IF t = {} THEN <<>>
    ELSE LET r == CHOOSE x \in t : \A y \in t : x.id <= y.id
         IN  <<r>> \o OrderById(t \ {r})

\* A read that also sees the rows other connections inserted and have not
\* committed.
SelectAllUncommitted ==
    OrderById(nodes \cup {[id |-> frame[h].node_id[1], label |-> frame[h].label,
                           parent_id |-> frame[h].parent_id] :
                              h \in {g \in Handlers : pc[g] = "commit"}})

SelectAll == OrderById(nodes)

NoResult == [kind |-> "none"]
NoFrame == [label |-> <<>>, parent_id |-> None, node_id |-> None, label_arg |-> None]

\* ------------------------------------------------------ the HTTP responses
\* No response is sent in a step that does not end a request.
NoResponse == [kind |-> "none"]

\* The handler raised and nothing caught it: the server logs the traceback
\* and closes the connection without sending a status line or a body.
Dropped(method) == [kind |-> "dropped", method |-> method]

\* _send_json: the status line and the JSON body.
send_json(method, status, payload) ==
    [kind |-> "sent", method |-> method, status |-> status, body |-> payload]

\* _send_error_json: {"error": message, "status": status.value}
send_error_json(method, status, message) ==
    send_json(method, status, [error |-> message, status |-> status])

\* handle_create_node with ValidationError and NodeNotFound caught by one
\* clause for their base class TreeServiceError.
CreateResponseOneClientError(res) ==
    CASE res.kind = "none" -> NoResponse
      [] res.kind = "TreeNode" -> send_json("POST", 201, to_dict(res))
      [] res.kind \in {"ValidationError", "NodeNotFound"} ->
             send_error_json("POST", 400, <<"label is required">>)
      [] OTHER -> send_error_json("POST", 500, <<"Unexpected server error">>)

\* handle_create_node, lines 72-85: the response for what create_node
\* returned or raised; a message is the sequence of its parts.
CreateResponse(res) ==
    CASE res.kind = "none" -> NoResponse
      [] res.kind = "TreeNode" -> send_json("POST", 201, to_dict(res))
      [] res.kind = "ValidationError" -> send_error_json("POST", 400, <<res.message>>)
      [] res.kind = "NodeNotFound" ->
             send_error_json("POST", 404, <<"Parent node", res.id, "does not exist">>)
      [] OTHER -> send_error_json("POST", 500, <<"Unexpected server error">>)

\* handle_list_trees: 200 with the to_dict of every root.
ListResponse(res) ==
    send_json("GET", 200, [i \in DOMAIN res.trees |-> to_dict(res.trees[i])])

\* get_connection without the finally clause: the connection stays open
\* when the call ends.
FinishLeavesOpen(h, res) ==
    /\ pc' = [pc EXCEPT ![h] = "idle"]
    /\ frame' = [frame EXCEPT ![h] = NoFrame]
    /\ conn' = conn
    /\ result' = res

\* The call of handler h ends: get_connection closes its connection.
Finish(h, res) ==
    /\ pc' = [pc EXCEPT ![h] = "idle"]
    /\ frame' = [frame EXCEPT ![h] = NoFrame]
    /\ conn' = [conn EXCEPT ![h] = FALSE]
    /\ result' = res

\* create_node with "if parent_id:" for "if parent_id is not None": a
\* parent_id of 0 is taken for no parent.
CreateCheckTruthy(h, label, parent_id) ==
    /\ pc[h] = "idle"
    /\ IF NormLabel(label) = <<>>
       THEN /\ result' = [kind |-> "ValidationError", message |-> "label is required"]
            /\ UNCHANGED <<pc, frame, conn>>
       ELSE IF parent_id # None /\ parent_id # Some(0) /\ SelectId(parent_id[1]) = None
       THEN Finish(h, [kind |-> "NodeNotFound", id |-> parent_id[1]])
       ELSE /\ pc' = [pc EXCEPT ![h] = "insert"]
            /\ frame' = [frame EXCEPT ![h] =
                   [label |-> NormLabel(label), parent_id |-> parent_id,
                    node_id |-> None, label_arg |-> label]]
            /\ conn' = [conn EXCEPT ![h] = TRUE]
            /\ result' = NoResult
    /\ response' = CreateResponse(result')
    /\ UNCHANGED <<nodes, seq, lock, issued, last_read, builderVars>>

\* create_node without the parent SELECT: any parent_id is stored as given.
CreateCheckNoSelect(h, label, parent_id) ==
    /\ pc[h] = "idle"
    /\ IF NormLabel(label) = <<>>
       THEN /\ result' = [kind |-> "ValidationError", message |-> "label is required"]
            /\ UNCHANGED <<pc, frame, conn>>
       ELSE /\ pc' = [pc EXCEPT ![h] = "insert"]
            /\ frame' = [frame EXCEPT ![h] =
                   [label |-> NormLabel(label), parent_id |-> parent_id,
                    node_id |-> None, label_arg |-> label]]
            /\ conn' = [conn EXCEPT ![h] = TRUE]
            /\ result' = NoResult
    /\ response' = CreateResponse(result')
    /\ UNCHANGED <<nodes, seq, lock, issued, last_read, builderVars>>

\* create_node, lines 43-53: trim the label and reject an empty one before
\* any connection is opened; then open the connection and SELECT the parent.
CreateCheck(h, label, parent_id) ==
    /\ pc[h] = "idle"
    /\ IF NormLabel(label) = <<>>
       THEN /\ result' = [kind |-> "ValidationError", message |-> "label is required"]
            /\ UNCHANGED <<pc, frame, conn>>
       ELSE IF parent_id # None /\ SelectId(parent_id[1]) = None
       THEN Finish(h, [kind |-> "NodeNotFound", id |-> parent_id[1]])
       ELSE /\ pc' = [pc EXCEPT ![h] = "insert"]
            /\ frame' = [frame EXCEPT ![h] =
                   [label |-> NormLabel(label), parent_id |-> parent_id,
                    node_id |-> None, label_arg |-> label]]
            /\ conn' = [conn EXCEPT ![h] = TRUE]
            /\ result' = NoResult
    /\ response' = CreateResponse(result')
    /\ UNCHANGED <<nodes, seq, lock, issued, last_read, builderVars>>

\* An INSERT that takes its id without waiting for the write lock.
CreateInsertUnlocked(h) ==
    /\ pc[h] = "insert"
    /\ seq < MaxId
    /\ lock' = Some(h)
    /\ frame' = [frame EXCEPT ![h].node_id = Some(NextRowId)]
    /\ pc' = [pc EXCEPT ![h] = "commit"]
    /\ result' = NoResult
    /\ response' = NoResponse
    /\ UNCHANGED <<nodes, seq, conn, issued, last_read, builderVars>>

\* create_node, lines 55-59: INSERT opens the write transaction; the row
\* and its id stay in the connection until the commit.
CreateInsert(h) ==
    /\ pc[h] = "insert"
    /\ lock = None
    /\ seq < MaxId
    /\ lock' = Some(h)
    /\ frame' = [frame EXCEPT ![h].node_id = Some(NextRowId)]
    /\ pc' = [pc EXCEPT ![h] = "commit"]
    /\ result' = NoResult
    /\ response' = NoResponse
    /\ UNCHANGED <<nodes, seq, conn, issued, last_read, builderVars>>

\* INSERT while another connection holds the write lock: sqlite3 gives up
\* after its busy timeout, and get_connection closes the connection.
CreateInsertBusy(h) ==
    /\ pc[h] = "insert"
    /\ lock # None
    /\ Finish(h, [kind |-> "OperationalError"])
    /\ response' = CreateResponse(result')
    /\ UNCHANGED <<nodes, seq, lock, issued, last_read, builderVars>>

\* create_node without conn.commit(): closing the connection rolls the
\* insert back, and the TreeNode is returned all the same.
CreateCommitMissing(h) ==
    /\ pc[h] = "commit"
    /\ lock' = None
    /\ Finish(h, [kind |-> "TreeNode", id |-> frame[h].node_id[1],
                  label |-> frame[h].label, parent_id |-> frame[h].parent_id,
                  children |-> <<>>])
    /\ issued' = Append(issued, frame[h].node_id[1])
    /\ last_read' = None
    /\ response' = CreateResponse(result')
    /\ UNCHANGED <<nodes, seq, builderVars>>

\* create_node, lines 60-62: commit and return the TreeNode.
CreateCommit(h) ==
    /\ pc[h] = "commit"
    /\ nodes' = nodes \cup {[id |-> frame[h].node_id[1], label |-> frame[h].label,
                             parent_id |-> frame[h].parent_id]}
    /\ seq' = frame[h].node_id[1]
    /\ lock' = None
    /\ Finish(h, [kind |-> "TreeNode", id |-> frame[h].node_id[1],
                  label |-> frame[h].label, parent_id |-> frame[h].parent_id,
                  children |-> <<>>])
    /\ issued' = Append(issued, frame[h].node_id[1])
    /\ last_read' = None
    /\ response' = CreateResponse(result')
    /\ UNCHANGED builderVars

\* list_trees: one SELECT on a connection of its own, then the builder.
list_trees(h) ==
    /\ pc[h] = "idle"
    /\ result' = [kind |-> "forest", trees |-> rows_to_forest(SelectAll)]
    /\ last_read' = Some([trees |-> rows_to_forest(SelectAll), again |-> last_read # None])
    /\ response' = ListResponse(result')
    /\ UNCHANGED <<nodes, seq, lock, pc, frame, conn, issued, builderVars>>

\* clear_all, lines 76-77: DELETE opens the write transaction.
ClearDelete(h) ==
    /\ pc[h] = "idle"
    /\ lock = None
    /\ lock' = Some(h)
    /\ pc' = [pc EXCEPT ![h] = "clear"]
    /\ conn' = [conn EXCEPT ![h] = TRUE]
    /\ result' = NoResult
    /\ response' = NoResponse
    /\ UNCHANGED <<nodes, seq, frame, issued, last_read, builderVars>>

\* DELETE while another connection holds the write lock.
ClearDeleteBusy(h) ==
    /\ pc[h] = "idle"
    /\ lock # None
    /\ result' = [kind |-> "OperationalError"]
    /\ response' = NoResponse
    /\ UNCHANGED <<nodes, seq, lock, pc, frame, conn, issued, last_read, builderVars>>

\* clear_all that also deletes the table's row of sqlite_sequence, so that
\* ids start again at 1.
ClearCommitResetSeq(h) ==
    /\ pc[h] = "clear"
    /\ nodes' = {}
    /\ seq' = 0
    /\ lock' = None
    /\ Finish(h, [kind |-> "cleared"])
    /\ last_read' = None
    /\ response' = NoResponse
    /\ UNCHANGED <<issued, builderVars>>

\* clear_all with DELETE FROM nodes WHERE parent_id IS NULL: only the roots
\* are deleted.
ClearCommitRootsOnly(h) ==
    /\ pc[h] = "clear"
    /\ nodes' = {r \in nodes : r.parent_id # None}
    /\ lock' = None
    /\ Finish(h, [kind |-> "cleared"])
    /\ last_read' = None
    /\ response' = NoResponse
    /\ UNCHANGED <<seq, issued, builderVars>>

\* clear_all, line 78: the commit empties the table; sqlite_sequence stays.
ClearCommit(h) ==
    /\ pc[h] = "clear"
    /\ nodes' = {}
    /\ lock' = None
    /\ Finish(h, [kind |-> "cleared"])
    /\ last_read' = None
    /\ response' = NoResponse
    /\ UNCHANGED <<seq, issued, builderVars>>

\* db.initialize on a new file: an empty table, no connection open.
StoreInit ==
    /\ nodes = {}
    /\ seq = 0
    /\ lock = None
    /\ pc = [h \in Handlers |-> "idle"]
    /\ frame = [h \in Handlers |-> NoFrame]
    /\ conn = [h \in Handlers |-> FALSE]
    /\ result = NoResult
    /\ response = NoResponse
    /\ issued = <<>>
    /\ last_read = None

\* The Forest Builder is not running.
StackInit == chain = 0 /\ frames = 0 /\ sorting = "idle"

Init == StoreInit /\ rows = <<>> /\ forest = None /\ StackInit

\* The request handlers of the threading server: any interleaving of the
\* steps of create_node, list_trees and clear_all.
Next ==
    \E h \in Handlers :
        \/ \E label \in LabelInputs, parent_id \in ParentInputs :
               CreateCheck(h, label, parent_id)
        \/ CreateInsert(h)
        \/ CreateInsertBusy(h)
        \/ CreateCommit(h)
        \/ list_trees(h)
        \/ ClearDelete(h)
        \/ ClearDeleteBusy(h)
        \/ ClearCommit(h)

Spec == Init /\ [][Next]_vars

\* One caller, as in the tests: a call starts when no other is running.
OthersIdle(h) == \A g \in Handlers \ {h} : pc[g] = "idle"

SeqNext ==
    \E h \in Handlers :
        \/ \E label \in LabelInputs, parent_id \in ParentInputs :
               OthersIdle(h) /\ CreateCheck(h, label, parent_id)
        \/ CreateInsert(h)
        \/ CreateCommit(h)
        \/ OthersIdle(h) /\ list_trees(h)
        \/ OthersIdle(h) /\ ClearDelete(h)
        \/ ClearCommit(h)

SeqSpec == Init /\ [][SeqNext]_vars

\* ------------------------------------------------- POST /api/tree bodies
\* A JSON value as json.loads returns it: its Python type and its value.
JNull == [t |-> "null", v |-> <<>>]
JBool(b) == [t |-> "bool", v |-> b]
JInt(n) == [t |-> "int", v |-> n]
\* A float: its integer part, whether it has a fractional part, and "inf"
\* or "nan" for the two values that are no number.
JFloat(whole, frac, special) ==
    [t |-> "float", v |-> [whole |-> whole, frac |-> frac, special |-> special]]
JString(str) == [t |-> "string", v |-> str]
JArray(elems) == [t |-> "array", v |-> elems]
\* An object: for each of the two keys the handler reads, its member if any.
JObject(label, parent_id) == [t |-> "object", v |-> [label |-> label, parent_id |-> parent_id]]

\* A request body: whether Content-Length is positive, and the value its
\* bytes parse to, if they are JSON.
Body(present, json) == [present |-> present, json |-> json]

\* bool(x) of a JSON value.
Truthy(j) ==
    CASE j.t = "null" -> FALSE
      [] j.t = "bool" -> j.v
      [] j.t = "int" -> j.v # 0
      [] j.t = "float" -> j.v.whole # 0 \/ j.v.frac \/ j.v.special # "no"
      [] j.t = "object" -> j.v.label # None \/ j.v.parent_id # None
      [] OTHER -> j.v # <<>>

Digits == <<"0", "1", "2", "3", "4", "5", "6", "7", "8", "9">>

DigitValue(c) == (CHOOSE d \in DOMAIN Digits : Digits[d] = c) - 1

RECURSIVE DigitsValue(_)
DigitsValue(str) ==
    IF str = <<>> THEN 0
    ELSE 10 * DigitsValue(SubSeq(str, 1, Len(str) - 1)) + DigitValue(str[Len(str)])

Raised(exc) == [ok |-> FALSE, raised |-> exc, value |-> None]
Converted(n) == [ok |-> TRUE, raised |-> "", value |-> Some(n)]

\* int(str): surrounding whitespace is dropped, then an optional sign and
\* decimal digits; anything else raises ValueError.
IntOfString(str) ==
    LET t == Strip(str)
        signed == t # <<>> /\ t[1] \in {"+", "-"}
        ds == IF signed THEN SubSeq(t, 2, Len(t)) ELSE t
    IN  IF ds # <<>> /\ \A i \in DOMAIN ds : \E d \in DOMAIN Digits : Digits[d] = ds[i]
        THEN Converted(IF signed /\ t[1] = "-" THEN 0 - DigitsValue(ds) ELSE DigitsValue(ds))
        ELSE Raised("ValueError")

\* int(x) of a JSON value: a bool is 0 or 1, a float is cut to its integer
\* part, nan raises ValueError and infinity raises OverflowError; an array
\* or an object raises TypeError.
IntOf(j) ==
    CASE j.t = "int" -> Converted(j.v)
      [] j.t = "bool" -> Converted(IF j.v THEN 1 ELSE 0)
      [] j.t = "float" ->
             IF j.v.special = "inf" THEN Raised("OverflowError")
             ELSE IF j.v.special = "nan" THEN Raised("ValueError")
             ELSE Converted(j.v.whole)
      [] j.t = "string" -> IntOfString(j.v)
      [] OTHER -> Raised("TypeError")

\* _read_json_body: ValueError for a missing or empty body and for bytes
\* that are not JSON, the parsed value otherwise.
read_json_body(body) ==
    IF ~body.present THEN [ok |-> FALSE, message |-> <<"Request body is required">>, payload |-> JNull]
    ELSE IF body.json = None
    THEN [ok |-> FALSE, message |-> <<"Request body must be valid JSON">>, payload |-> JNull]
    ELSE [ok |-> TRUE, message |-> <<>>, payload |-> body.json[1]]

\* payload.get(key) on a dict: the member, or None for a missing key.
payload_get(payload, key) ==
    IF payload.v[key] = None THEN JNull ELSE payload.v[key][1]

\* The label create_node works on after "label or ''": the string given, or
\* nothing for None and every other falsy value.
LabelArg(j) == IF j.t = "string" THEN Some(j.v) ELSE None

\* The handler answers, or raises, before or without touching the store.
Reply(h, res, resp) ==
    /\ result' = res
    /\ response' = resp
    /\ UNCHANGED <<nodes, seq, lock, pc, frame, conn, issued, last_read, builderVars>>

\* handle_create_node, lines 56-85, up to the parent SELECT of create_node:
\* a body that cannot be read is answered 400; payload.get on a value that
\* is no dict raises AttributeError outside every try; int(parent_id) is
\* guarded against TypeError and ValueError only; a truthy label without
\* strip() raises AttributeError inside create_node, which the handler
\* answers as any other exception.
Post(h, body) ==
    /\ pc[h] = "idle"
    /\ LET r == read_json_body(body)
       IN  IF ~r.ok THEN Reply(h, NoResult, send_error_json("POST", 400, r.message))
           ELSE IF r.payload.t # "object" THEN Reply(h, NoResult, Dropped("POST"))
           ELSE LET label == payload_get(r.payload, "label")
                    pj == payload_get(r.payload, "parent_id")
                    conv == IF pj.t = "null" THEN [ok |-> TRUE, raised |-> "", value |-> None]
                            ELSE IntOf(pj)
                IN  IF ~conv.ok /\ conv.raised \in {"TypeError", "ValueError"}
                    THEN Reply(h, NoResult,
                               send_error_json("POST", 400, <<"parent_id must be an integer">>))
                    ELSE IF ~conv.ok THEN Reply(h, NoResult, Dropped("POST"))
                    ELSE IF Truthy(label) /\ label.t # "string"
                    THEN Reply(h, [kind |-> "AttributeError"],
                               CreateResponse([kind |-> "AttributeError"]))
                    ELSE CreateCheck(h, LabelArg(label), conv.value)

\* The label and parent_id members a client sends: missing, null, strings,
\* numbers and arrays.
LabelMembers ==
    {None, Some(JNull), Some(JString(<<" ", "a", " ">>)), Some(JInt(5)), Some(JInt(0))}

ParentMembers ==
    {None, Some(JNull)}
        \cup {Some(JInt(n)) : n \in 0 .. MaxId - 1}
        \cup {Some(JString(<<" ", "1">>)), Some(JString(<<"x">>)),
              Some(JFloat(1, TRUE, "no")), Some(JFloat(0, FALSE, "inf")),
              Some(JArray(<<JInt(1)>>))}

\* No body, bytes that are not JSON, JSON that is no object, and objects.
PostBodies ==
    {Body(FALSE, None), Body(TRUE, None)}
        \cup {Body(TRUE, Some(j)) :
                  j \in {JNull, JInt(5), JString(<<"s">>), JArray(<<>>), JBool(TRUE)}}
        \cup {Body(TRUE, Some(JObject(l, p))) : l \in LabelMembers, p \in ParentMembers}

\* GET /api/tree while the store cannot be read (the file is no database,
\* the table is missing, the disk fails): the SELECT of list_trees raises,
\* get_connection closes the connection, and handle_list_trees has no
\* except clause, so the server closes the connection without a response.
list_trees_unreadable(h) ==
    /\ pc[h] = "idle"
    /\ result' = [kind |-> "OperationalError"]
    /\ response' = Dropped("GET")
    /\ UNCHANGED <<nodes, seq, lock, pc, frame, conn, issued, last_read, builderVars>>

\* The server as its clients drive it: POST and GET requests on concurrent
\* handler threads; nothing is ever deleted.
HttpNext ==
    \E h \in Handlers :
        \/ \E body \in PostBodies : Post(h, body)
        \/ CreateInsert(h)
        \/ CreateInsertBusy(h)
        \/ CreateCommit(h)
        \/ list_trees(h)
        \/ list_trees_unreadable(h)

HttpSpec == Init /\ [][HttpNext]_vars

\* The Forest Builder on its own: any rows with distinct ids, in any order.
BuilderLabels == {<<"a">>, <<"z">>}

BuilderParents == {None} \cup {Some(p) : p \in 0 .. MaxRows}

\* Up to MaxRows rows, their ids distinct and in any order, each parent_id
\* absent, 0 or an id a row can have.
BuilderInit ==
    /\ StoreInit
    /\ \E n \in 0 .. MaxRows :
           \E ids \in [1 .. n -> 1 .. MaxRows] :
               /\ \A i \in 1 .. n : \A j \in 1 .. n : i # j => ids[i] # ids[j]
               /\ \E ls \in [1 .. n -> BuilderLabels] :
                      \E ps \in [1 .. n -> BuilderParents] :
                          rows = [i \in 1 .. n |->
                                     [id |-> ids[i], label |-> ls[i], parent_id |-> ps[i]]]
    /\ forest = None
    /\ StackInit

Build ==
    /\ forest = None
    /\ forest' = Some(rows_to_forest(rows))
    /\ UNCHANGED <<rows, storeVars, chain, frames, sorting>>

BuilderNext == Build

BuilderSpec == BuilderInit /\ [][BuilderNext]_vars

\* ------------------------------------- the call stack of sort_children
\* The number of sort_children frames on the stack: the id of the node of
\* the chain that is being sorted.
SortDepth == frames - CallerFrames

\* list_trees calls _rows_to_forest, which builds nodes and roots in two
\* loops and comes to "for root in roots".
BuilderCall ==
    /\ sorting = "idle"
    /\ frames' = CallerFrames
    /\ sorting' = "descending"
    /\ UNCHANGED <<storeVars, rows, forest, chain>>

\* sort_children(root) at line 110, or sort_children(child) at line 106:
\* one more frame.
SortChildrenCall ==
    /\ sorting = "descending"
    /\ SortDepth < chain
    /\ frames + 1 < RecursionLimit
    /\ frames' = frames + 1
    /\ UNCHANGED <<storeVars, rows, forest, chain, sorting>>

\* The same call when the stack is full: RecursionError, which neither
\* _rows_to_forest nor list_trees catches.
SortChildrenRaise ==
    /\ sorting = "descending"
    /\ SortDepth < chain
    /\ frames + 1 >= RecursionLimit
    /\ frames' = 0
    /\ sorting' = "RecursionError"
    /\ UNCHANGED <<storeVars, rows, forest, chain>>

\* sort_children returns: the last node of the chain has no children, and
\* every other node has the one child whose call has returned.
SortChildrenReturn ==
    /\ \/ sorting = "descending" /\ SortDepth = chain
       \/ sorting = "returning"
    /\ SortDepth > 0
    /\ frames' = frames - 1
    /\ sorting' = "returning"
    /\ UNCHANGED <<storeVars, rows, forest, chain>>

\* _rows_to_forest, line 112: return roots.
BuilderReturn ==
    /\ \/ sorting = "descending" /\ chain = 0
       \/ sorting = "returning"
    /\ SortDepth = 0
    /\ frames' = 0
    /\ sorting' = "returned"
    /\ UNCHANGED <<storeVars, rows, forest, chain>>

\* A chain of no row, of a few rows, or of as many rows as Python allows
\* frames.
DeepInit ==
    /\ StoreInit
    /\ rows = <<>>
    /\ forest = None
    /\ chain \in (0 .. MaxRows) \cup {RecursionLimit}
    /\ frames = 0
    /\ sorting = "idle"

DeepNext ==
    \/ BuilderCall
    \/ SortChildrenCall
    \/ SortChildrenRaise
    \/ SortChildrenReturn
    \/ BuilderReturn

DeepSpec == DeepInit /\ [][DeepNext]_vars

\* ================================================================ claims
IsWhitespaceOnly(str) == \A i \in DOMAIN str : str[i] \in Whitespace

\* A label that is absent, empty or whitespace-only.
IsBlank(label) == label = None \/ IsWhitespaceOnly(label[1])

\* t is s without its leading and trailing whitespace.
IsTrimOf(t, s) ==
    /\ t # <<>>
    /\ t[1] \notin Whitespace
    /\ t[Len(t)] \notin Whitespace
    /\ \E i \in 1 .. Len(s) : \E j \in i .. Len(s) :
           /\ t = SubSeq(s, i, j)
           /\ \A k \in 1 .. Len(s) : (k < i \/ k > j) => s[k] \in Whitespace

\* C1: the ids successful create_node calls return are strictly increasing
\* in the order of the calls, ClearAll or not: each is greater than every id
\* assigned before it, and none is assigned twice.
C1_IdsStrictlyIncrease ==
    /\ \A i \in DOMAIN issued : \A j \in DOMAIN issued : i < j => issued[i] < issued[j]
    /\ result.kind = "TreeNode" =>
           /\ issued # <<>>
           /\ result.id = issued[Len(issued)]
           /\ \A i \in 1 .. Len(issued) - 1 : issued[i] < result.id

\* An id returned after ClearAll removed the node of an earlier id.
C1_Witness ==
    /\ result.kind = "TreeNode"
    /\ Len(issued) >= 2
    /\ issued[1] \notin Ids(nodes)
    /\ result.id \in Ids(nodes)

\* C2: a create_node call with an absent, empty or whitespace-only label,
\* whatever its parent_id, raises ValidationError "label is required" and
\* leaves the stored rows as they were.
C2_BlankLabelRejected ==
    [][\A h \in Handlers : \A label \in LabelInputs : \A parent_id \in ParentInputs :
          (IsBlank(label) /\ CreateCheck(h, label, parent_id)) =>
              /\ result' = [kind |-> "ValidationError", message |-> "label is required"]
              /\ nodes' = nodes
              /\ seq' = seq]_vars

\* A rejected label on a store that holds rows.
C2_Witness ==
    /\ result.kind = "ValidationError"
    /\ nodes # {}

\* C3: a create_node call with a label that is not blank and a parent_id
\* that is the id of no stored row (zero, negative, never assigned, or
\* removed by ClearAll) raises NodeNotFound naming that id and leaves the
\* stored rows as they were.
C3_MissingParentRejected ==
    [][\A h \in Handlers : \A label \in LabelInputs : \A parent_id \in ParentInputs :
          (/\ ~IsBlank(label)
           /\ parent_id # None
           /\ \A r \in nodes : r.id # parent_id[1]
           /\ CreateCheck(h, label, parent_id)) =>
              /\ result' = [kind |-> "NodeNotFound", id |-> parent_id[1]]
              /\ nodes' = nodes
              /\ seq' = seq]_vars

\* NodeNotFound for the id of a node that ClearAll removed.
C3_Witness ==
    /\ result.kind = "NodeNotFound"
    /\ \E i \in DOMAIN issued : issued[i] = result.id
    /\ result.id \notin Ids(nodes)

\* C4: a successful create_node appends exactly one row, with a new id, the
\* trimmed label and the parent_id given, keeps every row stored before, and
\* returns a TreeNode with that id, the trimmed label and no children.
C4_CreateAppendsOneRow ==
    [][/\ \A h \in Handlers : \A label \in LabelInputs : \A parent_id \in ParentInputs :
              (CreateCheck(h, label, parent_id) /\ pc'[h] = "insert") =>
                  /\ frame'[h].label_arg = label
                  /\ frame'[h].parent_id = parent_id
       /\ \A h \in Handlers :
              (pc[h] = "commit" /\ pc'[h] = "idle") =>
                  \E r \in nodes' :
                      /\ r.id \notin Ids(nodes)
                      /\ nodes' = nodes \cup {r}
                      /\ Cardinality(nodes') = Cardinality(nodes) + 1
                      /\ frame[h].label_arg # None
                      /\ IsTrimOf(r.label, frame[h].label_arg[1])
                      /\ r.parent_id = frame[h].parent_id
                      /\ result' = [kind |-> "TreeNode", id |-> r.id, label |-> r.label,
                                    parent_id |-> r.parent_id, children |-> <<>>]]_vars

\* A child created from a padded label in a store that held its parent.
C4_Witness ==
    /\ result.kind = "TreeNode"
    /\ result.label = <<"a">>
    /\ result.parent_id # None
    /\ \E r \in nodes : result.parent_id = Some(r.id)
    /\ \E r \in nodes : r.id = result.id /\ r.label = result.label

ChildIds(n) == {n.children[i].id : i \in DOMAIN n.children}

ForestIds(f) == {n.id : n \in ForestNodes(f)}

\* C5: after calls made one at a time, the forest read holds each stored
\* node exactly once, with its label, and no other node; a node without
\* parent_id is a root, and a node with parent_id p is a child of the node
\* with id p and of no other node, and is no root.
C5_ForestHoldsEveryNode ==
    result.kind = "forest" =>
        LET f == result.trees
        IN  /\ ForestIds(f) = Ids(nodes)
            /\ \A r \in nodes :
                   /\ ForestOccurrences(f, r.id) = 1
                   /\ \A n \in ForestNodes(f) : n.id = r.id => n.label = r.label
                   /\ r.parent_id = None => \E i \in DOMAIN f : f[i].id = r.id
                   /\ r.parent_id # None =>
                          /\ \A i \in DOMAIN f : f[i].id # r.id
                          /\ \E n \in ForestNodes(f) : n.id = r.parent_id[1]
                          /\ \A n \in ForestNodes(f) :
                                 r.id \in ChildIds(n) <=> n.id = r.parent_id[1]

\* A forest read with a node that has a parent and a child.
C5_Witness ==
    /\ result.kind = "forest"
    /\ \E n \in ForestNodes(result.trees) : n.parent_id # None /\ n.children # <<>>

\* C6: in a forest the builder returns, the roots and the children of
\* every node are in strictly ascending id order, whatever the labels and
\* the order of the rows.
C6_AscendingAtEveryLevel ==
    forest # None =>
        /\ StrictlyAscending(forest[1])
        /\ \A n \in ForestNodes(forest[1]) : StrictlyAscending(n.children)

\* Built from rows that give two children of one stored parent with the
\* greater id first, the labels ordered against the ids.
C6_Witness ==
    /\ forest # None
    /\ \E i \in DOMAIN rows : \E j \in DOMAIN rows :
           /\ i < j
           /\ rows[i].id > rows[j].id
           /\ rows[i].label = <<"a">>
           /\ rows[j].label = <<"z">>
           /\ rows[i].parent_id = rows[j].parent_id
           /\ \E k \in DOMAIN rows : rows[i].parent_id = Some(rows[k].id) /\ k # i /\ k # j
           /\ \E n \in ForestNodes(forest[1]) : Len(n.children) = 2

\* C7: the builder loses no node: whatever the parent_id of each row refers
\* to, every row's node occurs exactly once in the forest under the roots
\* returned.
C7_NeverLosesANode ==
    forest # None =>
        \A i \in DOMAIN rows : ForestOccurrences(forest[1], rows[i].id) = 1

RowIds(rs) == {rs[i].id : i \in DOMAIN rs}

IsDangling(rs, r) == r.parent_id # None /\ r.parent_id[1] \notin RowIds(rs)

\* The ids of the rows in S and of every row below one of them.
RECURSIVE Below(_, _)
Below(rs, S) ==
    LET more == S \cup {rs[i].id : i \in {k \in DOMAIN rs :
                            rs[k].parent_id # None /\ rs[k].parent_id[1] \in S}}
    IN  IF more = S THEN S ELSE Below(rs, more)

\* C8: a row whose parent_id is the id of no row given is returned as a
\* root, once, among roots in ascending id order, with exactly the rows
\* below it nested under it.
C8_DanglingRowIsRoot ==
    forest # None =>
        \A i \in DOMAIN rows :
            IsDangling(rows, rows[i]) =>
                /\ StrictlyAscending(forest[1])
                /\ ForestOccurrences(forest[1], rows[i].id) = 1
                /\ \E k \in DOMAIN forest[1] :
                       /\ forest[1][k].id = rows[i].id
                       /\ forest[1][k].label = rows[i].label
                       /\ {n.id : n \in TreeNodes(forest[1][k])} = Below(rows, {rows[i].id})

\* A dangling row with a child, given before a root of a smaller id.
C8_Witness ==
    /\ forest # None
    /\ \E i \in DOMAIN rows : \E j \in DOMAIN rows : \E k \in DOMAIN rows :
           /\ IsDangling(rows, rows[i])
           /\ rows[j].parent_id = Some(rows[i].id)
           /\ rows[k].parent_id = None
           /\ rows[k].id < rows[i].id
           /\ i < k
           /\ Len(forest[1]) = 2

\* C9: a forest read returns the forest the read before it returned when
\* no create_node and no clear_all committed between the two.
C9_RepeatedReadSame ==
    [][(result'.kind = "forest" /\ last_read # None) =>
           result'.trees = last_read[1].trees]_vars

\* A second read of a store that holds rows, while another handler has
\* inserted a row and not committed it.
C9_Witness ==
    /\ result.kind = "forest"
    /\ last_read # None
    /\ last_read[1].again
    /\ nodes # {}
    /\ \E h \in Handlers : pc[h] = "commit"

\* C10: the forest read of a store without rows is the empty list.
C10_EmptyStoreEmptyForest ==
    (result.kind = "forest" /\ nodes = {}) => result.trees = <<>>

\* A read after ClearAll removed the nodes created before.
C10_Witness ==
    /\ result.kind = "forest"
    /\ nodes = {}
    /\ issued # <<>>
    /\ result.trees = <<>>


\* ---- create_node against clear_all, and ids under concurrent calls ----

\* C11: the parent check and the insert of create_node act as one unit:
\* whenever a handler has inserted a row with a parent_id, under any
\* interleaving with other create_node and clear_all calls, a row with that
\* id is in the store at the moment of the insert.
C11_ParentStoredAtInsert ==
    \A h \in Handlers :
        (pc[h] = "commit" /\ frame[h].parent_id # None)
            => frame[h].parent_id[1] \in Ids(nodes)


\* C12: under any interleaving of concurrent create_node calls the ids the
\* successful calls were given are pairwise distinct, the id a call returns
\* is the id of the one row that call inserted, and the row a call is about
\* to commit has an id greater than that of every row committed before it.
C12_ConcurrentIdsDistinct ==
    /\ \A i \in DOMAIN issued : \A j \in DOMAIN issued : i # j => issued[i] # issued[j]
    /\ result.kind = "TreeNode" =>
           /\ [id |-> result.id, label |-> result.label,
               parent_id |-> result.parent_id] \in nodes
           /\ Cardinality({r \in nodes : r.id = result.id}) = 1
           /\ issued[Len(issued)] = result.id
    /\ \A h \in Handlers :
           pc[h] = "commit" =>
               /\ \A r \in nodes : r.id < frame[h].node_id[1]
               /\ \A i \in DOMAIN issued : issued[i] < frame[h].node_id[1]

\* Two calls ran side by side: one has just returned its node while the
\* other, which passed its checks earlier, still waits to insert.
C12_Witness ==
    /\ result.kind = "TreeNode"
    /\ Len(issued) >= 2
    /\ \E h \in Handlers : pc[h] = "insert"


\* Walking up the parent links of table t from row id reaches target in at
\* most fuel steps.
RECURSIVE OnParentChain(_, _, _, _)
OnParentChain(t, id, target, fuel) ==
    IF fuel = 0 \/ id \notin Ids(t) THEN FALSE
    ELSE LET r == CHOOSE x \in t : x.id = id
         IN  /\ r.parent_id # None
             /\ \/ r.parent_id[1] = target
                \/ OnParentChain(t, r.parent_id[1], target, fuel - 1)

\* C13: in every reachable store state, under any interleaving, every
\* stored parent_id is smaller than the id of the row that holds it, so no
\* row is its own parent and no chain of parent links comes back to its
\* start.
C13_ParentLinksAcyclic ==
    \A r \in nodes :
        /\ r.parent_id # None => r.parent_id[1] < r.id
        /\ ~OnParentChain(nodes, r.id, r.id, Cardinality(nodes))

\* A row whose parent was cleared away while it was being created, and a
\* row created under it afterwards.
C13_Witness ==
    \E r \in nodes : \E c \in nodes :
        /\ r.parent_id # None
        /\ r.parent_id[1] \notin Ids(nodes)
        /\ c.parent_id = Some(r.id)


\* ---- reads against writes ----

\* The ids of the rows handlers have inserted and not yet committed.
UncommittedIds == {frame[h].node_id[1] : h \in {g \in Handlers : pc[g] = "commit"}}

\* C14: a node that create_node has returned is in the store, and rows leave
\* the store only when a clear_all commits, so every scan that starts after
\* the return and before such a commit includes the node; a forest read
\* returns exactly the committed rows, none of them twice and none whose
\* insert is not yet committed; and the scan delivers the rows in ascending
\* id order.
C14_ReadsSeeCommittedRows ==
    [][ /\ result'.kind = "TreeNode" => result'.id \in Ids(nodes')
        /\ \/ nodes \subseteq nodes'
           \/ \E h \in Handlers : pc[h] = "clear" /\ pc'[h] = "idle"
        /\ result'.kind = "forest" =>
               /\ ForestIds(result'.trees) = Ids(nodes)
               /\ \A k \in Ids(nodes) : ForestOccurrences(result'.trees, k) = 1
               /\ ForestIds(result'.trees) \cap UncommittedIds = {}
               /\ StrictlyAscending(SelectAll)
               /\ Range(SelectAll) = nodes ]_vars

\* A read of two committed rows taken while another handler holds a row it
\* has inserted and not committed.
C14_Witness ==
    /\ result.kind = "forest"
    /\ Cardinality(nodes) >= 2
    /\ UncommittedIds # {}


\* ---- the POST handler ----

\* C15: a POST with a JSON object body on which create_node was called is
\* answered by what create_node did: 201 with id, label and an empty
\* children list when it returned a node, 400 for ValidationError, 404 for
\* NodeNotFound, and 500 with the one fixed message for every other
\* exception; and every error response sent carries its own HTTP status in
\* the "status" member of its body.
C15_StatusFollowsOutcome ==
    /\ (response.kind # "none" /\ response.method = "POST") =>
           /\ result.kind = "TreeNode" =>
                  response = send_json("POST", 201,
                                 [id |-> result.id, label |-> result.label, children |-> <<>>])
           /\ result.kind = "ValidationError" =>
                  response = send_error_json("POST", 400, <<"label is required">>)
           /\ result.kind = "NodeNotFound" =>
                  /\ response.kind = "sent" /\ response.status = 404
                  /\ response.body.status = 404
           /\ result.kind \in {"OperationalError", "AttributeError"} =>
                  response = send_error_json("POST", 500, <<"Unexpected server error">>)
    /\ (response.kind = "sent" /\ response.status >= 400) =>
           /\ DOMAIN response.body = {"error", "status"}
           /\ response.body.status = response.status

\* A request answered 500 because its INSERT found the store locked by
\* another handler's insert.
C15_Witness ==
    /\ result.kind = "OperationalError"
    /\ response.kind = "sent"
    /\ response.status = 500
    /\ \E h \in Handlers : pc[h] = "commit"


\* ---- ids in sequence, and clear_all ----

\* C16: of two successful create_node calls with no other successful one
\* between them, the second returns the id of the first plus one, whatever
\* failed calls, reads and clear_all calls ran in between.
C16_IdsSequential ==
    \A i \in DOMAIN issued : i > 1 => issued[i] = issued[i - 1] + 1

\* Three nodes were created and a clear_all ran before the third: the store
\* holds the third alone.
C16_Witness ==
    /\ Len(issued) >= 3
    /\ Ids(nodes) = {issued[Len(issued)]}

\* C17: clear_all deletes every row whatever the store held: when it
\* returns the store is empty, a forest read of an empty store returns the
\* empty forest, and the store stays empty until a create_node succeeds.
C17_ClearAllEmptiesStore ==
    [][ /\ \A h \in Handlers :
               (pc[h] = "clear" /\ pc'[h] = "idle") =>
                   (nodes' = {} /\ result'.kind = "cleared")
        /\ (nodes = {} /\ nodes' # {}) => result'.kind = "TreeNode"
        /\ (nodes' = {} /\ result'.kind = "forest") => result'.trees = <<>> ]_vars

\* clear_all has just returned after two nodes had been created, and a
\* create_node that passed its parent check before is still to insert.
C17_Witness ==
    /\ result.kind = "cleared"
    /\ nodes = {}
    /\ Len(issued) >= 2
    /\ \E h \in Handlers : pc[h] = "insert" /\ frame[h].parent_id # None


\* C18: with concurrent create_node calls and reads and no clear_all, every
\* stored row that has a parent_id has its parent row in the store.
C18_NoDanglingWithoutDelete ==
    \A r \in nodes : r.parent_id # None => r.parent_id[1] \in Ids(nodes)

\* A child is stored with its parent, while one handler holds an inserted
\* row and the other has passed its parent check and waits to insert.
C18_Witness ==
    /\ \E r \in nodes : r.parent_id # None
    /\ \E h \in Handlers : \E g \in Handlers :
           /\ pc[h] = "commit"
           /\ pc[g] = "insert"
           /\ frame[g].parent_id # None


\* ---- the Forest Builder on deep input ----

\* C19: the Forest Builder is total: for every finite row sequence with
\* distinct ids it returns its roots and never raises.
C19_BuilderNeverRaises == sorting # "RecursionError"


\* ---- every POST is answered ----

\* C20: every POST to /api/tree that has ended was sent one response, either
\* 201 with the created node or an error object of exactly "error" and
\* "status", whatever its body was: missing, not JSON, JSON that is no
\* object, or an object with a label and a parent_id of any JSON type.
C20_EveryPostAnswered ==
    (response.kind # "none" /\ response.method = "POST") =>
        /\ response.kind = "sent"
        /\ \/ /\ response.status = 201
              /\ DOMAIN response.body = {"id", "label", "children"}
           \/ /\ response.status >= 400
              /\ DOMAIN response.body = {"error", "status"}


\* ---- GET against a store that cannot be read ----

\* C21: a GET /api/tree that ended while the store could not be read was
\* answered with the generic internal failure, status 500 and the one fixed
\* message in an object of "error" and "status", and with no forest.
C21_UnreadableStoreAnswered500 ==
    (response.kind # "none" /\ response.method = "GET" /\ result.kind # "forest") =>
        response = send_error_json("GET", 500, <<"Unexpected server error">>)


\* ---- connections ----

\* C22: no connection outlives its call: a handler with no call in progress
\* holds no open connection, whether its call returned, raised NodeNotFound
\* or raised a storage error; a handler between its INSERT or DELETE and
\* the commit holds the one connection it opened; and a step that raises
\* ValidationError opens no connection.
C22_NoConnectionOutlivesCall ==
    [][ /\ \A h \in Handlers : pc'[h] = "idle" => ~conn'[h]
        /\ \A h \in Handlers : pc'[h] \in {"insert", "commit", "clear"} => conn'[h]
        /\ result'.kind = "ValidationError" => conn' = conn ]_vars

\* A create_node gave up on a locked store and its connection is closed,
\* while the handler holding the lock still has its own open.
C22_Witness ==
    /\ result.kind = "OperationalError"
    /\ \E h \in Handlers : \E g \in Handlers :
           /\ pc[h] = "idle" /\ ~conn[h]
           /\ pc[g] = "commit" /\ conn[g]


\* ---- the Forest Builder and the order of its rows ----

\* The sequence s with its i-th and j-th elements exchanged.
Exchanged(s, i, j) ==
    [k \in DOMAIN s |-> IF k = i THEN s[j] ELSE IF k = j THEN s[i] ELSE s[k]]

\* C23: the forest depends on the set of rows and not on their order: for
\* rows with distinct ids, the builder run on the rows with any two
\* neighbours exchanged returns the forest it returned for them, with the
\* same roots, nesting and order at every level. Every ordering of a row
\* set comes from every other by such exchanges, and each is a row sequence
\* the builder is run on, so any two orderings give the same forest.
C23_ForestIgnoresRowOrder ==
    forest # None =>
        \A i \in DOMAIN rows :
            i < Len(rows) => rows_to_forest(Exchanged(rows, i, i + 1)) = forest[1]

\* A forest built from rows given out of id order, a child before its
\* parent.
C23_Witness ==
    /\ forest # None
    /\ Len(rows) >= 2
    /\ \E i \in DOMAIN rows : \E j \in DOMAIN rows :
           /\ i < j
           /\ rows[i].id > rows[j].id
           /\ rows[i].parent_id = Some(rows[j].id)
    /\ \E k \in DOMAIN forest[1] : forest[1][k].children # <<>>

====
